---- MODULE Spec2Model ----
(***************************************************************************)
(* Ecliptic apex: global maximum scan (scripts/analyze_global_max.py) and  *)
(* apex track sweep (scripts/precompute_tracks.py).                        *)
(*                                                                         *)
(* Number representation.  The scripts compute in binary64; TLC computes   *)
(* in 32-bit integers.  Lengths are integer metres, angles are integer     *)
(* millidegrees, and the values of sin/cos (and of unit vectors) are       *)
(* integers scaled by TrigScale.  Every arithmetic step of the source is   *)
(* kept (degrees -> sin/cos -> prime vertical radius -> ECEF -> sqrt ->    *)
(* dot product), each rounded to that resolution, so results agree with    *)
(* the scripts to about four significant digits.                           *)
(***************************************************************************)
EXTENDS Integers, Sequences, FiniteSets, TLC

\* ---------------------------------------------------------------- numbers

\* Scale of the fixed-point values of sin, cos and unit-vector components.
TrigScale == 10000

\* Angle unit: one degree is MilliDeg units (DEG2RAD's role in the source).
MilliDeg == 1000

Abs(v) == IF v < 0 THEN -v ELSE v

Max2(a, b) == IF a >= b THEN a ELSE b

\* math.sin at whole degrees 0..90, scaled by TrigScale (entry d+1 is sin d°).
SinTab ==
   << 0, 175, 349, 523, 698, 872, 1045, 1219, 1392, 1564, 1736, 1908, 2079,
      2250, 2419, 2588, 2756, 2924, 3090, 3256, 3420, 3584, 3746, 3907, 4067, 4226,
      4384, 4540, 4695, 4848, 5000, 5150, 5299, 5446, 5592, 5736, 5878, 6018, 6157,
      6293, 6428, 6561, 6691, 6820, 6947, 7071, 7193, 7314, 7431, 7547, 7660, 7771,
      7880, 7986, 8090, 8192, 8290, 8387, 8480, 8572, 8660, 8746, 8829, 8910, 8988,
      9063, 9135, 9205, 9272, 9336, 9397, 9455, 9511, 9563, 9613, 9659, 9703, 9744,
      9781, 9816, 9848, 9877, 9903, 9925, 9945, 9962, 9976, 9986, 9994, 9998, 10000 >>

\* sin on the first quadrant, a in 0..90*MilliDeg, linear between table entries.
SinQ(a) ==
   LET d == a \div MilliDeg
       f == a % MilliDeg
   IN  IF f = 0 THEN SinTab[d + 1]
       ELSE SinTab[d + 1]
            + ((SinTab[d + 2] - SinTab[d + 1]) * f + MilliDeg \div 2) \div MilliDeg

\* math.sin(a * DEG2RAD), a in millidegrees, result scaled by TrigScale.
Sin(a) ==
   LET m == a % (360 * MilliDeg)
   IN  IF m <= 90 * MilliDeg THEN SinQ(m)
       ELSE IF m <= 180 * MilliDeg THEN SinQ(180 * MilliDeg - m)
       ELSE IF m <= 270 * MilliDeg THEN -SinQ(m - 180 * MilliDeg)
       ELSE -SinQ(360 * MilliDeg - m)

\* math.cos(a * DEG2RAD), a in millidegrees, result scaled by TrigScale.
Cos(a) == Sin(a + 90 * MilliDeg)

\* v * t / TrigScale for a length v >= 0 and a scaled factor t >= 0, without
\* leaving 32 bits: v = q*TrigScale + r gives
\* floor(v*t/TrigScale) = q*t + floor(r*t/TrigScale).
MulPos(v, t) == (v \div TrigScale) * t + ((v % TrigScale) * t) \div TrigScale

\* The product of a length and a scaled factor of either sign; the rounding
\* is that of the magnitudes, as a floating-point product's is.
Mul(v, t) ==
   IF (v < 0) = (t < 0) THEN MulPos(Abs(v), Abs(t)) ELSE -MulPos(Abs(v), Abs(t))

\* The product of two scaled factors, rounded to the nearest.
TrigMul(a, b) ==
   LET m == (Abs(a) * Abs(b) + TrigScale \div 2) \div TrigScale
   IN  IF (a < 0) = (b < 0) THEN m ELSE -m

RECURSIVE IsqrtIter(_, _, _)
IsqrtIter(n, lo, hi) ==
   IF lo >= hi THEN lo
   ELSE LET mid == (lo + hi + 1) \div 2
        IN  IF mid * mid <= n THEN IsqrtIter(n, mid, hi)
            ELSE IsqrtIter(n, lo, mid - 1)

\* floor(sqrt(n)) for 0 <= n < 2^31.
Isqrt(n) == IsqrtIter(n, 0, 46340)

\* Length unit of the leading digits in Hypot.
HypotUnit == 150

\* math.sqrt(x*x + y*y) for metre values up to 6.4e6: the square root of the
\* leading digits (x, y in units of HypotUnit) plus the first-order term of
\* the remainders, so that no product leaves 32 bits.
Hypot(x, y) ==
   LET ax == Abs(x)
       ay == Abs(y)
       xq == ax \div HypotUnit
       xr == ax % HypotUnit
       yq == ay \div HypotUnit
       yr == ay % HypotUnit
       S  == xq * xq + yq * yq
       r0 == Isqrt(S)
   IN  IF r0 = 0 THEN Max2(ax, ay)
       ELSE HypotUnit * r0
            + (HypotUnit * (S - r0 * r0) + 2 * (xq * xr + yq * yr)) \div (2 * r0)

\* ---------------------------------------------------------------- constants

\* WGS84 semi-major axis, metres.
WGS84_A == 6378137

\* First eccentricity squared, 0.00669437999014, scaled by E2Scale.
WGS84_E2 == 66944

E2Scale == 10000000

\* J2000 mean obliquity 23.4392911 degrees, in millidegrees.
OBLIQUITY_DEG == 23439

SIN_E == Sin(OBLIQUITY_DEG)

COS_E == Cos(OBLIQUITY_DEG)

\* ---------------------------------------------------------------- ECEF

\* v * WGS84_E2 for a length v (metres, up to 3e7).
MulE2(v) == ((v \div 1000) * WGS84_E2) \div (E2Scale \div 1000)

\* N = WGS84_A / sqrt(1 - WGS84_E2 * sin_lat * sin_lat), metres.
PrimeVertical(sin_lat) ==
   LET s2   == (sin_lat * sin_lat) \div TrigScale
       e2s2 == (WGS84_E2 * s2) \div TrigScale
       root == Isqrt((E2Scale - e2s2) * 10)
   IN  (WGS84_A \div root) * TrigScale + ((WGS84_A % root) * TrigScale) \div root

\* geodetic (lat, lon in millidegrees, elevation in metres) to ECEF metres.
geodetic_to_ecef(lat_deg, lon_deg, elev_m) ==
   LET sin_lat == Sin(lat_deg)
       cos_lat == Cos(lat_deg)
       N == PrimeVertical(sin_lat)
   IN  [x |-> Mul(Mul(N + elev_m, cos_lat), Cos(lon_deg)),
        y |-> Mul(Mul(N + elev_m, cos_lat), Sin(lon_deg)),
        z |-> Mul(N - MulE2(N) + elev_m, sin_lat)]

\* ecliptic_hmax with the horizontal radius taken from x alone.
ecliptic_hmax_x_only(lat_deg, lon_deg, elev_m, south) ==
   LET p   == geodetic_to_ecef(lat_deg, lon_deg, Max2(elev_m, 0))
       rxy == Abs(p.x)
   IN  IF south THEN Mul(rxy, SIN_E) - Mul(p.z, COS_E)
       ELSE Mul(rxy, SIN_E) + Mul(p.z, COS_E)

\* ecliptic_hmax without elev_m = max(elev_m, 0).
ecliptic_hmax_signed(lat_deg, lon_deg, elev_m, south) ==
   LET p   == geodetic_to_ecef(lat_deg, lon_deg, elev_m)
       rxy == Hypot(p.x, p.y)
   IN  IF south THEN Mul(rxy, SIN_E) - Mul(p.z, COS_E)
       ELSE Mul(rxy, SIN_E) + Mul(p.z, COS_E)

\* Closed-form maximum ecliptic height of a surface point over all times.
ecliptic_hmax(lat_deg, lon_deg, elev_m, south) ==
   LET p   == geodetic_to_ecef(lat_deg, lon_deg, Max2(elev_m, 0))
       rxy == Hypot(p.x, p.y)
   IN  IF south THEN Mul(rxy, SIN_E) - Mul(p.z, COS_E)
       ELSE Mul(rxy, SIN_E) + Mul(p.z, COS_E)

\* ---------------------------------------------------------------- ellipsoid baseline

\* Search band of the ellipsoid-only optimum (64..69 N, -69..-64 S), in
\* millidegrees; the step 0.001 degree is one millidegree.
EllipsoidLatStart(south) == IF south THEN -69 * MilliDeg ELSE 64 * MilliDeg

EllipsoidLatEnd(south) == IF south THEN -64 * MilliDeg ELSE 69 * MilliDeg

\* range(int((lat_end - lat_start) / 0.001) + 1): the loop indices 0..Count-1.
EllipsoidCount(south) == (EllipsoidLatEnd(south) - EllipsoidLatStart(south)) + 1

\* The running maximum of the loop over a run of indices: the later element
\* replaces the earlier one only when strictly higher (if h > best_h).
KeepBest(left, right) == IF right.h > left.h THEN right ELSE left

\* The loop of compute_ellipsoid_optimum over the indices lo..hi, halved
\* recursively; KeepBest is associative, so the result is that of the
\* left-to-right loop: the first index that attains the maximum.
RECURSIVE EllipsoidScan(_, _, _)
EllipsoidScan(south, lo, hi) ==
   IF lo = hi
   THEN LET lat_deg == EllipsoidLatStart(south) + lo
        IN  [lat |-> lat_deg, h |-> ecliptic_hmax(lat_deg, 0, 0, south)]
   ELSE LET mid == (lo + hi) \div 2
        IN  KeepBest(EllipsoidScan(south, lo, mid), EllipsoidScan(south, mid + 1, hi))

\* Optimal latitude on the bare ellipsoid and its height (analyze_global_max).
compute_ellipsoid_optimum(south) == EllipsoidScan(south, 0, EllipsoidCount(south) - 1)

\* The height of one latitude as compute_optimal_ellipsoid_lat writes it out:
\* h = SIN_E * N * cos_lat + cos_sign * COS_E * N * (1 - WGS84_E2) * sin_lat.
EllipsoidHeight(lat_deg, south) ==
   LET sin_lat == Sin(lat_deg)
       cos_lat == Cos(lat_deg)
       N == PrimeVertical(sin_lat)
       cos_sign == IF south THEN -1 ELSE 1
   IN  Mul(Mul(N, SIN_E), cos_lat)
       + cos_sign * Mul(Mul(N - MulE2(N), COS_E), sin_lat)

RECURSIVE EllipsoidLatScan(_, _, _)
EllipsoidLatScan(south, lo, hi) ==
   IF lo = hi
   THEN LET lat_deg == EllipsoidLatStart(south) + lo
        IN  [lat |-> lat_deg, h |-> EllipsoidHeight(lat_deg, south)]
   ELSE LET mid == (lo + hi) \div 2
        IN  KeepBest(EllipsoidLatScan(south, lo, mid),
                     EllipsoidLatScan(south, mid + 1, hi))

\* Optimal ellipsoid latitude and its height (precompute_tracks).
compute_optimal_ellipsoid_lat(south) ==
   EllipsoidLatScan(south, 0, EllipsoidCount(south) - 1)

\* Both searches depend on the hemisphere alone; their four results are
\* evaluated once and looked up by the runs below.
EllipsoidOptimumMemo ==
   << compute_ellipsoid_optimum(FALSE), compute_ellipsoid_optimum(TRUE) >>

EllipsoidLatMemo ==
   << compute_optimal_ellipsoid_lat(FALSE), compute_optimal_ellipsoid_lat(TRUE) >>

EllipsoidOptimum(south) == EllipsoidOptimumMemo[IF south THEN 2 ELSE 1]

EllipsoidLat(south) == EllipsoidLatMemo[IF south THEN 2 ELSE 1]

\* ---------------------------------------------------------------- elevation grid

\* Python's round() of the quotient num / den (den # 0): to the nearest
\* integer, a tie to the even one.
RoundHalfEven(num, den) ==
   LET n == IF den < 0 THEN -num ELSE num
       d == Abs(den)
       q == n \div d
       r == n % d
   IN  IF 2 * r < d THEN q
       ELSE IF 2 * r > d THEN q + 1
       ELSE IF q % 2 = 0 THEN q ELSE q + 1

\* math.ceil of the quotient num / den, den > 0.
CeilDiv(num, den) == -((-num) \div den)

\* What both readers do up to the derived steps: unpack the 24-byte header
\* and the int16 payload, then divide by nRows - 1 and nCols - 1.  The result
\* is the grid, or the exception that leaves the function.
UnpackGrid(file) ==
   IF file.nRows * file.nCols < 0 \/ Len(file.payload) # file.nRows * file.nCols
   THEN [error |-> "struct.error", grid |-> << >>]
   ELSE IF file.nRows - 1 = 0 \/ file.nCols - 1 = 0
   THEN [error |-> "ZeroDivisionError", grid |-> << >>]
   ELSE [error |-> "",
         grid |-> [latMin |-> file.latMin, latMax |-> file.latMax,
                   lonMin |-> file.lonMin, lonMax |-> file.lonMax,
                   nRows |-> file.nRows, nCols |-> file.nCols,
                   elevations |-> file.payload,
                   latStep |-> (file.latMax - file.latMin) \div (file.nRows - 1),
                   lonStep |-> (file.lonMax - file.lonMin) \div (file.nCols - 1)]]

\* analyze_global_max.read_elevation_grid: also reports min and max of the
\* elevations, which raises on an empty payload.
read_elevation_grid(file) ==
   LET r == UnpackGrid(file)
   IN  IF r.error = "" /\ Len(r.grid.elevations) = 0
       THEN [error |-> "ValueError", grid |-> << >>]
       ELSE r

\* precompute_tracks.read_elevation_grid.
read_elevation_grid_tracks(file) == UnpackGrid(file)

\* Latitude of a row and longitude of a column (0-based), millidegrees.
RowLat(grid, row) == grid.latMin + row * grid.latStep

ColLon(grid, col) == grid.lonMin + col * grid.lonStep

\* CorrectOne without the test true_elev > old: the cell is overwritten.
CorrectOneOverwrite(grid, elevations, c) ==
   LET row == RoundHalfEven(c.lat - grid.latMin, grid.latStep)
       col == RoundHalfEven(c.lon - grid.lonMin, grid.lonStep)
   IN  IF 0 <= row /\ row < grid.nRows /\ 0 <= col /\ col < grid.nCols
       THEN [elevations EXCEPT ![row * grid.nCols + col + 1] = c.elev]
       ELSE elevations

\* One correction (a record lat, lon, elev) applied to the elevations.
CorrectOne(grid, elevations, c) ==
   LET row == RoundHalfEven(c.lat - grid.latMin, grid.latStep)
       col == RoundHalfEven(c.lon - grid.lonMin, grid.lonStep)
   IN  IF 0 <= row /\ row < grid.nRows /\ 0 <= col /\ col < grid.nCols
       THEN LET idx == row * grid.nCols + col
                old == elevations[idx + 1]
            IN  IF c.elev > old THEN [elevations EXCEPT ![idx + 1] = c.elev]
                ELSE elevations
       ELSE elevations

\* The loop over the corrections, in list order.
RECURSIVE CorrectAll(_, _, _)
CorrectAll(grid, elevations, corrs) ==
   IF corrs = << >> THEN elevations
   ELSE CorrectAll(grid, CorrectOne(grid, elevations, Head(corrs)), Tail(corrs))

\* analyze_global_max.apply_corrections: works on a copy of the elevations
\* and stores the copy back into the grid.
apply_corrections(grid, corrs) ==
   [grid EXCEPT !.elevations = CorrectAll(grid, grid.elevations, corrs)]

\* precompute_tracks.apply_corrections: writes into grid["elevations"].
apply_corrections_tracks(grid, corrs) ==
   [grid EXCEPT !.elevations = CorrectAll(grid, @, corrs)]

\* PEAK_CORRECTIONS_NORTH (the same four entries in both scripts).
PEAK_CORRECTIONS_NORTH ==
   << [lat |-> 66935, lon |-> -36786, elev |-> 3383],
      [lat |-> 68919, lon |-> -29899, elev |-> 3694],
      [lat |-> 68900, lon |-> -29880, elev |-> 3683],
      [lat |-> 68880, lon |-> -29850, elev |-> 3669] >>

\* ---------------------------------------------------------------- grid scan

\* Python's order on the tuples (h, lat, lon, elev): a > b.
TupleGreater(a, b) ==
   \/ a[1] > b[1]
   \/ a[1] = b[1] /\ a[2] > b[2]
   \/ a[1] = b[1] /\ a[2] = b[2] /\ a[3] > b[3]
   \/ a[1] = b[1] /\ a[2] = b[2] /\ a[3] = b[3] /\ a[4] > b[4]

\* c put into a descending sequence, after the elements that are not less.
RECURSIVE InsertDescending(_, _)
InsertDescending(c, sorted) ==
   IF sorted = << >> THEN << c >>
   ELSE IF TupleGreater(c, Head(sorted)) THEN << c >> \o sorted
   ELSE << Head(sorted) >> \o InsertDescending(c, Tail(sorted))

\* results.sort() without reverse=True: ascending.
RECURSIVE SortAscending(_)
SortAscending(results) ==
   IF results = << >> THEN << >>
   ELSE LET rest == SortAscending(Tail(results))
            below == SelectSeq(rest, LAMBDA c : TupleGreater(Head(results), c))
            above == SelectSeq(rest, LAMBDA c : ~TupleGreater(Head(results), c))
        IN  below \o << Head(results) >> \o above

\* results.sort(reverse=True).
RECURSIVE SortDescending(_)
SortDescending(results) ==
   IF results = << >> THEN << >>
   ELSE InsertDescending(Head(results), SortDescending(Tail(results)))

\* results[:top_n + 1]: one candidate too many.
SliceToInclusive(results, top_n) ==
   SubSeq(results, 1, IF top_n + 1 < Len(results) THEN top_n + 1 ELSE Len(results))

\* results[:top_n].
SliceTo(results, top_n) ==
   LET n == Len(results)
   IN  IF top_n >= 0 THEN SubSeq(results, 1, IF top_n < n THEN top_n ELSE n)
       ELSE SubSeq(results, 1, Max2(n + top_n, 0))

\* The candidate of one cell, idx = row * nCols + col.
Candidate(grid, south, idx) ==
   LET row == idx \div grid.nCols
       col == idx % grid.nCols
       lat_deg == RowLat(grid, row)
       lon_deg == ColLon(grid, col)
       elev == grid.elevations[idx + 1]
   IN  << ecliptic_hmax(lat_deg, lon_deg, elev, south), lat_deg, lon_deg, elev >>

\* Every cell in scan order, then the sort and the slice.
scan_grid(grid, south, top_n) ==
   LET results == [i \in 1..(grid.nRows * grid.nCols) |-> Candidate(grid, south, i - 1)]
   IN  SliceTo(SortDescending(results), top_n)

\* ---------------------------------------------------------------- apex track sweep

\* Number of GMST samples of one rotation.
NUM_SAMPLES == 8

\* Half-width of the longitude search window, degrees.
WINDOW_DEG == 15

\* The smallest a in lo..hi (millidegrees) with tan(a) >= q / p, for p >= q >= 0, p > 0.
RECURSIVE AtanSearch(_, _, _, _)
AtanSearch(p, q, lo, hi) ==
   IF lo >= hi THEN lo
   ELSE LET mid == (lo + hi) \div 2
        IN  IF Sin(mid) * p >= Cos(mid) * q THEN AtanSearch(p, q, lo, mid)
            ELSE AtanSearch(p, q, mid + 1, hi)

\* math.atan2(y, x) * (180 / pi), millidegrees in -180000..180000.
Atan2Deg(y, x) ==
   LET ax == Abs(x)
       ay == Abs(y)
       alpha == IF ax = 0 /\ ay = 0 THEN 0
                ELSE IF ay <= ax THEN AtanSearch(ax, ay, 0, 45 * MilliDeg)
                ELSE 90 * MilliDeg - AtanSearch(ay, ax, 0, 45 * MilliDeg)
       theta == IF x >= 0 THEN alpha ELSE 180 * MilliDeg - alpha
   IN  IF y < 0 THEN -theta ELSE theta

\* GmstDeg dividing by the number of samples, NUM_SAMPLES + 1: the last
\* sample stops short of the full turn.
GmstDegOpen(s) == (s * 360 * MilliDeg) \div (NUM_SAMPLES + 1)

\* gmst_rad = (s / NUM_SAMPLES) * 2 * pi, as millidegrees.
GmstDeg(s) == (s * 360 * MilliDeg) \div NUM_SAMPLES

\* The ecliptic pole unit vector at sample s.
PoleVector(s, south) ==
   LET cos_g == Cos(GmstDeg(s))
       sin_g == Sin(GmstDeg(s))
   IN  IF south
       THEN [ex |-> TrigMul(SIN_E, sin_g), ey |-> TrigMul(SIN_E, cos_g), ez |-> -COS_E]
       ELSE [ex |-> TrigMul(-SIN_E, sin_g), ey |-> TrigMul(-SIN_E, cos_g), ez |-> COS_E]

\* enp_lon_deg = atan2(ey, ex) in degrees.  Where the pole's projection points
\* along -x, ey is the product of SIN_E and the cosine of the binary64 angle
\* pi/2 (north) or 3*pi/2 (south); that cosine is not 0 and the product is
\* negative in both hemispheres, so atan2 gives -180 and never +180.
EnpLonDeg(pole) ==
   IF pole.ey = 0 /\ pole.ex < 0 THEN -180 * MilliDeg
   ELSE Atan2Deg(pole.ey, pole.ex)

\* One cell of precompute_ecef, idx = row * nCols + col.
EcefCell(grid, idx) ==
   LET row == idx \div grid.nCols
       col == idx % grid.nCols
       lat_deg == RowLat(grid, row)
       sin_lat == Sin(lat_deg)
       cos_lat == Cos(lat_deg)
       N == PrimeVertical(sin_lat)
       lon_deg == ColLon(grid, col)
       elev == Max2(grid.elevations[idx + 1], 0)
   IN  [x |-> Mul(Mul(N + elev, cos_lat), Cos(lon_deg)),
        y |-> Mul(Mul(N + elev, cos_lat), Sin(lon_deg)),
        z |-> Mul(N - MulE2(N) + elev, sin_lat),
        lat |-> lat_deg,
        lon |-> lon_deg]

\* The five arrays of precompute_ecef.
precompute_ecef(grid) ==
   LET count == grid.nRows * grid.nCols
       cell(i) == EcefCell(grid, i - 1)
   IN  [ecef_x |-> [i \in 1..count |-> cell(i).x],
        ecef_y |-> [i \in 1..count |-> cell(i).y],
        ecef_z |-> [i \in 1..count |-> cell(i).z],
        lats   |-> [i \in 1..count |-> cell(i).lat],
        lons   |-> [i \in 1..count |-> cell(i).lon]]

\* MarkColumns that looks at the first row only.
RECURSIVE MarkColumnsFirstRow(_, _, _)
MarkColumnsFirstRow(grid, flags, idx) ==
   IF idx >= grid.nCols THEN flags
   ELSE MarkColumnsFirstRow(grid,
                            IF grid.elevations[idx + 1] > 0
                            THEN [flags EXCEPT ![(idx % grid.nCols) + 1] = TRUE]
                            ELSE flags,
                            idx + 1)

\* The loop that builds col_has_mtn, from cell idx on: a positive elevation
\* sets the flag of its column.
RECURSIVE MarkColumns(_, _, _)
MarkColumns(grid, flags, idx) ==
   IF idx >= grid.nRows * grid.nCols THEN flags
   ELSE MarkColumns(grid,
                    IF grid.elevations[idx + 1] > 0
                    THEN [flags EXCEPT ![(idx % grid.nCols) + 1] = TRUE]
                    ELSE flags,
                    idx + 1)

ColHasMtn(grid) == MarkColumns(grid, [c \in 1..grid.nCols |-> FALSE], 0)

\* WindowCols with floor in place of ceil.
WindowColsFloor(grid) == (WINDOW_DEG * grid.nCols) \div 360

\* window_cols = ceil(window_deg / lon_step) with lon_step = 360.0 / nCols.
WindowCols(grid) == CeilDiv(WINDOW_DEG * grid.nCols, 360)

\* center_col = round((enp_lon_deg - lon_min) / lon_step) % nCols.
CenterCol(grid, enp_lon_deg) ==
   RoundHalfEven((enp_lon_deg - grid.lonMin) * grid.nCols, 360 * MilliDeg) % grid.nCols

\* h = ecef_x[i]*ex + ecef_y[i]*ey + ecef_z[i]*ez for the cached cell i (0-based).
InstantHeight(cache, i, pole) ==
   Mul(cache.ecef_x[i + 1], pole.ex) + Mul(cache.ecef_y[i + 1], pole.ey)
   + Mul(cache.ecef_z[i + 1], pole.ez)

\* A longitude as the track lists hold it: the fixed-point value and the
\* part of the binary64 value below it, counted in units of
\* (2 * pi - 2 * math.pi) / NUM_SAMPLES.
Longitude(mdeg, low) == [mdeg |-> mdeg, low |-> low]

\* What gmst_rad = (s / NUM_SAMPLES) * 2 * math.pi falls short of s turns of
\* 1 / NUM_SAMPLES, math.pi being less than pi: s units.  enp_lon_deg, which
\* runs against gmst_rad, lies that much above the meridian of the ideal angle.
GmstLow(s) == s

\* SearchRows with h >= best_height: of equal heights the last one met wins.
RECURSIVE SearchRowsLast(_, _, _, _, _, _)
SearchRowsLast(grid, cache, pole, col, row, best) ==
   IF row >= grid.nRows THEN best
   ELSE LET i == row * grid.nCols + col
            h == InstantHeight(cache, i, pole)
        IN  SearchRowsLast(grid, cache, pole, col, row + 1,
               IF grid.elevations[i + 1] <= 0 THEN best
               ELSE IF h >= best.height
               THEN [height |-> h, lat |-> cache.lats[i + 1],
                     lon |-> Longitude(cache.lons[i + 1], 0),
                     elev |-> grid.elevations[i + 1]]
               ELSE best)

\* The rows of one window column, from row on.
RECURSIVE SearchRows(_, _, _, _, _, _)
SearchRows(grid, cache, pole, col, row, best) ==
   IF row >= grid.nRows THEN best
   ELSE LET i == row * grid.nCols + col
            h == InstantHeight(cache, i, pole)
        IN  SearchRows(grid, cache, pole, col, row + 1,
               IF grid.elevations[i + 1] <= 0 THEN best
               ELSE IF h > best.height
               THEN [height |-> h, lat |-> cache.lats[i + 1],
                     lon |-> Longitude(cache.lons[i + 1], 0),
                     elev |-> grid.elevations[i + 1]]
               ELSE best)

\* The window columns center_col + dc, from dc on to window_cols.
RECURSIVE SearchWindow(_, _, _, _, _, _, _, _)
SearchWindow(grid, cache, flags, pole, center_col, window_cols, dc, best) ==
   IF dc > window_cols THEN best
   ELSE LET col == (center_col + dc) % grid.nCols
        IN  SearchWindow(grid, cache, flags, pole, center_col, window_cols, dc + 1,
               IF ~flags[col + 1] THEN best
               ELSE SearchRows(grid, cache, pole, col, 0, best))

\* The values of col in for dc in range(-window_cols, window_cols + 1), in order.
WindowColumns(grid, center_col, window_cols) ==
   [j \in 1..(2 * window_cols + 1) |-> (center_col + j - 1 - window_cols) % grid.nCols]

\* The columns the window loop of sample s goes through.
SampleColumns(grid, south, s) ==
   WindowColumns(grid, CenterCol(grid, EnpLonDeg(PoleVector(s, south))), WindowCols(grid))

\* InitialBest with best_lon left at 0 and not set to enp_lon_deg.
InitialBestNoMeridian(prev, ellipsoid, enp_lon) ==
   [height |-> ellipsoid.h, lat |-> ellipsoid.lat, lon |-> Longitude(0, 0), elev |-> 0]

\* InitialBest with best_height set once before the loop and not per sample:
\* the height of the sample processed before stays the one to beat.
InitialBestKept(prev, ellipsoid, enp_lon) ==
   [height |-> IF prev.elev >= 0 THEN prev.height ELSE ellipsoid.h,
    lat |-> ellipsoid.lat, lon |-> enp_lon, elev |-> 0]

\* The running best as the loop body sets it before the search: the
\* ellipsoid baseline at the pole's meridian.  prev holds the values the
\* names carry from the iteration before.
InitialBest(prev, ellipsoid, enp_lon) ==
   [height |-> ellipsoid.h, lat |-> ellipsoid.lat, lon |-> enp_lon, elev |-> 0]

\* The body of the loop for sample s: the values of best_height, best_lat,
\* best_lon and best_elev when the sample is appended.
SampleBody(grid, cache, flags, ellipsoid, south, prev, s) ==
   LET pole == PoleVector(s, south)
       enp_lon_deg == EnpLonDeg(pole)
   IN  SearchWindow(grid, cache, flags, pole, CenterCol(grid, enp_lon_deg),
                    WindowCols(grid), -WindowCols(grid),
                    InitialBest(prev, ellipsoid, Longitude(enp_lon_deg, GmstLow(s))))

\* The power of two p with |v| < 2^24 * p, from p on.
RECURSIVE Float32Unit(_, _)
Float32Unit(a, p) == IF a < 16777216 * p THEN p ELSE Float32Unit(a, 2 * p)

\* struct.pack("<f", v): v rounded to 24 significant bits, ties to even.
Float32(v) ==
   LET p == Float32Unit(Abs(v) \div 128, 1)
   IN  IF Abs(v) < 16777216 THEN v ELSE RoundHalfEven(v, 128 * p) * 128 * p

\* struct.pack("<f", lon) of a track longitude: the part below the
\* fixed-point value is far below the 24 bits and rounds away.
Float32Lon(lon) == Float32(lon.mdeg)

\* write_track: the int32 count and the float32 records.
write_track(lats, lons, elevs) ==
   [n |-> Len(lats),
    records |-> [i \in 1..Len(lats) |->
                   << Float32(lats[i]), Float32Lon(lons[i]), Float32(elevs[i]) >>]]

\* The loop of compute_track from sample s on, run in index order: the
\* three lists it returns.
RECURSIVE SweepFrom(_, _, _, _, _, _, _, _)
SweepFrom(grid, cache, flags, ellipsoid, south, prev, s, track) ==
   IF s > NUM_SAMPLES THEN track
   ELSE LET b == SampleBody(grid, cache, flags, ellipsoid, south, prev, s)
        IN  SweepFrom(grid, cache, flags, ellipsoid, south, b, s + 1,
                      [lats  |-> Append(track.lats, b.lat),
                       lons  |-> Append(track.lons, b.lon),
                       elevs |-> Append(track.elevs, b.elev)])

\* ---------------------------------------------------------------- state

VARIABLES
   script,       \* "analyze" (analyze_global_max.py) or "tracks" (precompute_tracks.py)
   entry,        \* the function the run enters: "main" or one called on its own
   files,        \* the data directory: hemisphere -> grid file, or NoFile
   pc,           \* position of the run
   hemi,         \* hemisphere of the current run, "north" or "south"
   grid,         \* the grid dict of the current run
   corrections,  \* the list given to apply_corrections
   top_n,        \* scan_grid's top_n
   top,          \* scan_grid's result
   opt,          \* analyze_hemisphere's opt_lat, opt_h
   cache,        \* compute_track's ecef_x, ecef_y, ecef_z, grid_lats, grid_lons
   col_has_mtn,  \* compute_track's per-column flags
   ellipsoid,    \* compute_track's ellipsoid_lat, ellipsoid_hmax
   s,            \* the sample index of the sweep
   best,         \* best_height, best_lat, best_lon, best_elev as last assigned
   track,        \* track_lats, track_lons, track_elevs
   slots,        \* results by sample index, when samples run in any order
   out,          \* the track files written: hemisphere -> file, or NoFile
   log,          \* the notices written to stdout
   error,        \* the exception that ended the run, "" if none
   probe,        \* arguments and results of ecliptic_hmax called on its own
   cols          \* the columns the window loop of the last sample went through

vars == << script, entry, files, pc, hemi, grid, corrections, top_n, top, opt,
           cache, col_has_mtn, ellipsoid, s, best, track, slots, out, log,
           error, probe, cols >>

NoFile == [nRows |-> -1]

NoGrid == << >>

NoBest == [height |-> 0, lat |-> 0, lon |-> Longitude(0, 0), elev |-> -1]

NoTrack == [lats |-> << >>, lons |-> << >>, elevs |-> << >>]

South == hemi = "south"

Min2(a, b) == IF a <= b THEN a ELSE b

\* Number of cells of the current grid.
CellCount == grid.nRows * grid.nCols

\* top_n as analyze_hemisphere passes it.
TOP_N == 30

\* ---------------------------------------------------------------- inputs

\* Most cells of an input grid that differ from sea level.
MaxPeaks == 2

\* Largest top_n given to scan_grid called on its own.
MaxTopN == 7

\* Elevations of the input cells, metres (int16).
ElevSet == {-500, 0, 5000, 20000}

Header(latMin, latMax, lonMin, lonMax, nRows, nCols) ==
   [latMin |-> latMin, latMax |-> latMax, lonMin |-> lonMin, lonMax |-> lonMax,
    nRows |-> nRows, nCols |-> nCols]

File(h, payload) ==
   [latMin |-> h.latMin, latMax |-> h.latMax, lonMin |-> h.lonMin,
    lonMax |-> h.lonMax, nRows |-> h.nRows, nCols |-> h.nCols, payload |-> payload]

\* The 2 x 2 grid of lat 60..61, lon 0..1.
HeaderUnit == Header(60000, 61000, 0, 1000, 2, 2)

\* A full ring of four columns 90 degrees apart, rows at 66 and 67 N.
HeaderRing == Header(66000, 67000, -180000, 90000, 2, 4)

\* Three columns 10 degrees apart around 90 W.
HeaderNear == Header(66000, 67000, -100000, -80000, 2, 3)

\* A regional grid: four columns half a degree apart from the prime meridian.
HeaderRegional == Header(66000, 67000, 0, 1500, 2, 4)

\* Three columns 10 degrees apart around 90 E, rows at 67 and 66 S.
HeaderSouth == Header(-67000, -66000, 80000, 100000, 2, 3)

\* Two columns either side of the Greenland peaks of PEAK_CORRECTIONS_NORTH.
HeaderGreenland == Header(66000, 69000, -37000, -29000, 2, 2)

\* The payloads of n cells with at most MaxPeaks cells off sea level.
Payloads(n) ==
   {p \in [1..n -> ElevSet] : Cardinality({i \in 1..n : p[i] # 0}) <= MaxPeaks}

FilesOf(h) == {File(h, p) : p \in Payloads(h.nRows * h.nCols)}

\* What the readers make of a well-formed file.
GridOf(file) == UnpackGrid(file).grid

GridsOf(h) == {GridOf(f) : f \in FilesOf(h)}

NoFiles == [north |-> NoFile, south |-> NoFile]

NoOpt == [lat |-> 0, h |-> 0]

NoCache == << >>

NoProbe == << >>

\* The parts of the state before any function has run.
Unscanned == top = << >> /\ opt = NoOpt

Unswept ==
   /\ cache = NoCache /\ col_has_mtn = << >> /\ ellipsoid = NoOpt
   /\ s = 0 /\ best = NoBest /\ track = NoTrack /\ slots = << >> /\ cols = << >>

Unwritten == out = NoFiles /\ log = << >> /\ error = ""

\* ---------------------------------------------------------------- functions called on their own

\* ecliptic_hmax at one latitude and elevation and two longitudes.
HmaxLats == {-75000, -66561, -60000, 60000, 61000, 66561, 68919, 75000}

HmaxLons == {-180000, -90000, -36786, 0, 1000, 45000, 123456}

InitHmax ==
   /\ script = "analyze" /\ entry = "ecliptic_hmax" /\ pc = "hmax"
   /\ probe \in [lat : HmaxLats, lon1 : HmaxLons, lon2 : HmaxLons,
                 elev : ElevSet, south : BOOLEAN, h1 : {0}, h2 : {0}]
   /\ files = NoFiles /\ hemi = "north" /\ grid = NoGrid /\ corrections = << >>
   /\ top_n = 0 /\ Unscanned /\ Unswept /\ Unwritten

EvalHmax ==
   /\ pc = "hmax"
   /\ probe' = [probe EXCEPT
         !.h1 = ecliptic_hmax(probe.lat, probe.lon1, probe.elev, probe.south),
         !.h2 = ecliptic_hmax(probe.lat, probe.lon2, probe.elev, probe.south)]
   /\ pc' = "done"
   /\ UNCHANGED << script, entry, files, hemi, grid, corrections, top_n, top, opt,
                   cache, col_has_mtn, ellipsoid, s, best, track, slots, out, log,
                   error, cols >>

SpecHmax == InitHmax /\ [][EvalHmax]_vars

\* scan_grid on a grid, a hemisphere and a top_n.
ScanHeaders == {HeaderUnit, HeaderNear, HeaderSouth}

InitScan ==
   /\ script = "analyze" /\ entry = "scan_grid" /\ pc = "scan"
   /\ \E h \in ScanHeaders : grid \in GridsOf(h)
   /\ hemi \in {"north", "south"}
   /\ top_n \in 0..MaxTopN
   /\ files = NoFiles /\ corrections = << >> /\ probe = NoProbe
   /\ Unscanned /\ Unswept /\ Unwritten

\* Where the run goes after scan_grid returns.
AfterScan == IF entry = "main" THEN "report" ELSE "done"

ScanGrid ==
   /\ pc = "scan"
   /\ top' = scan_grid(grid, South, top_n)
   /\ pc' = AfterScan
   /\ UNCHANGED << script, entry, files, hemi, grid, corrections, top_n, opt,
                   cache, col_has_mtn, ellipsoid, s, best, track, slots, out, log,
                   error, probe, cols >>

SpecScan == InitScan /\ [][ScanGrid]_vars

\* apply_corrections of either script on a grid and a list of corrections.
\* files.north keeps the file the grid was read from.
MaxCorrections == 2

CorrPayloads ==
   { << 0, 0, 0, 0, 0, 0 >>,
     << -500, 5000, 0, 0, 20000, 0 >>,
     << 5000, 0, -500, 20000, 0, 0 >> }

\* Latitudes and longitudes whose rounded row and column fall before, on and
\* behind the rows 0..1 and the columns 0..2 of HeaderNear, ties included.
CorrLats == {65400, 66500, 67500}

CorrLons == {-106000, -95000, -75000, -74000}

CorrElevs == {-100, 3383, 6000}

CorrSet == [lat : CorrLats, lon : CorrLons, elev : CorrElevs]

RECURSIVE SeqsUpTo(_, _)
SeqsUpTo(S, n) ==
   IF n = 0 THEN {<< >>}
   ELSE LET shorter == SeqsUpTo(S, n - 1)
        IN  shorter \cup {Append(q, e) : q \in {r \in shorter : Len(r) = n - 1}, e \in S}

InitCorr ==
   /\ script \in {"analyze", "tracks"} /\ entry = "apply_corrections" /\ pc = "correct"
   /\ \E p \in CorrPayloads : files = [north |-> File(HeaderNear, p), south |-> NoFile]
   /\ grid = GridOf(files.north)
   /\ corrections \in SeqsUpTo(CorrSet, MaxCorrections)
   /\ hemi = "north" /\ top_n = 0 /\ probe = NoProbe
   /\ Unscanned /\ Unswept /\ Unwritten

\* Where the run goes after apply_corrections returns.
AfterCorrect ==
   IF entry # "main" THEN "done"
   ELSE IF script = "analyze" THEN "scan" ELSE "track_init"

ApplyCorrections ==
   /\ pc = "correct"
   /\ grid' = IF script = "analyze" THEN apply_corrections(grid, corrections)
              ELSE apply_corrections_tracks(grid, corrections)
   /\ pc' = AfterCorrect
   /\ UNCHANGED << script, entry, files, hemi, corrections, top_n, top, opt,
                   cache, col_has_mtn, ellipsoid, s, best, track, slots, out, log,
                   error, probe, cols >>

SpecCorr == InitCorr /\ [][ApplyCorrections]_vars

\* compute_track followed by write_track, as main runs them for one hemisphere.
TrackHeaders == {HeaderRing, HeaderNear, HeaderRegional, HeaderSouth}

InitTrack ==
   /\ script = "tracks" /\ entry = "compute_track" /\ pc = "track_init"
   /\ \E h \in TrackHeaders :
         /\ grid \in GridsOf(h)
         /\ hemi = IF h = HeaderSouth THEN "south" ELSE "north"
   /\ files = NoFiles /\ corrections = << >> /\ top_n = 0 /\ probe = NoProbe
   /\ Unscanned /\ Unswept /\ Unwritten

\* compute_track up to the loop: the ECEF cache, lon_step = 360.0 / nCols,
\* the ellipsoid optimum and the column flags.
PrecomputeTrack ==
   /\ pc = "track_init"
   /\ IF grid.nCols = 0
      THEN /\ error' = "ZeroDivisionError" /\ pc' = "crashed"
           /\ UNCHANGED << cache, col_has_mtn, ellipsoid, s, best, track, cols >>
      ELSE /\ cache' = precompute_ecef(grid)
           /\ col_has_mtn' = ColHasMtn(grid)
           /\ ellipsoid' = EllipsoidLat(South)
           /\ s' = 0 /\ best' = NoBest /\ track' = NoTrack /\ cols' = << >>
           /\ pc' = IF entry = "any_order" THEN "pool" ELSE "sweep"
           /\ UNCHANGED error
   /\ UNCHANGED << script, entry, files, hemi, grid, corrections, top_n, top, opt,
                   slots, out, log, probe >>

\* One iteration of for s in range(NUM_SAMPLES + 1).
SweepSample ==
   /\ pc = "sweep" /\ s <= NUM_SAMPLES
   /\ best' = SampleBody(grid, cache, col_has_mtn, ellipsoid, South, best, s)
   /\ track' = [lats  |-> Append(track.lats, best'.lat),
                lons  |-> Append(track.lons, best'.lon),
                elevs |-> Append(track.elevs, best'.elev)]
   /\ cols' = SampleColumns(grid, South, s)
   /\ s' = s + 1
   /\ pc' = IF s = NUM_SAMPLES THEN "write" ELSE "sweep"
   /\ UNCHANGED << script, entry, files, hemi, grid, corrections, top_n, top, opt,
                   cache, col_has_mtn, ellipsoid, slots, out, log, error, probe >>

\* Following with the south left out after the north.
FollowingNone(h) == "end"

\* Where main goes after hemisphere h, analysed or skipped.
Following(h) == IF h = "north" THEN "south_check" ELSE "end"

NextHemisphere == Following(hemi)

AfterWrite == IF entry = "main" THEN NextHemisphere ELSE "done"

\* write_track on the lists compute_track returned.
WriteTrack ==
   /\ pc = "write"
   /\ out' = [out EXCEPT ![hemi] = write_track(track.lats, track.lons, track.elevs)]
   /\ pc' = AfterWrite
   /\ UNCHANGED << script, entry, files, hemi, grid, corrections, top_n, top, opt,
                   cache, col_has_mtn, ellipsoid, s, best, track, slots, log,
                   error, probe, cols >>

SpecTrack == InitTrack /\ [][PrecomputeTrack \/ SweepSample \/ WriteTrack]_vars

\* The loop body of compute_track run once per sample index in any order,
\* the names best_height, best_lat, best_lon and best_elev living on from one
\* run of the body to the next, and the results collected by sample index.
ParFiles ==
   { File(HeaderRing, << 0, 0, 0, 0, 0, 5000, 0, 0 >>),
     File(HeaderNear, << 0, 20000, 0, 5000, 0, 0 >>),
     File(HeaderSouth, << 0, 5000, 0, 0, 0, 20000 >>) }

InitPar ==
   /\ script = "tracks" /\ entry = "any_order" /\ pc = "track_init"
   /\ \E f \in ParFiles :
         /\ grid = GridOf(f)
         /\ hemi = IF f.latMin < 0 THEN "south" ELSE "north"
   /\ files = NoFiles /\ corrections = << >> /\ top_n = 0 /\ probe = NoProbe
   /\ Unscanned /\ Unswept /\ Unwritten

\* The loop body for one sample index that has not run yet.
RunSample ==
   /\ pc = "pool"
   /\ \E k \in (0..NUM_SAMPLES) \ DOMAIN slots :
         /\ best' = SampleBody(grid, cache, col_has_mtn, ellipsoid, South, best, k)
         /\ slots' = [i \in DOMAIN slots \cup {k} |-> IF i = k THEN best' ELSE slots[i]]
         /\ cols' = SampleColumns(grid, South, k)
         /\ pc' = IF DOMAIN slots' = 0..NUM_SAMPLES THEN "collect" ELSE "pool"
   /\ UNCHANGED << script, entry, files, hemi, grid, corrections, top_n, top, opt,
                   cache, col_has_mtn, ellipsoid, s, track, out, log, error, probe >>

\* The three lists, read from the slots in index order.
Collect ==
   /\ pc = "collect"
   /\ track' = [lats  |-> [i \in 1..(NUM_SAMPLES + 1) |-> slots[i - 1].lat],
                lons  |-> [i \in 1..(NUM_SAMPLES + 1) |-> slots[i - 1].lon],
                elevs |-> [i \in 1..(NUM_SAMPLES + 1) |-> slots[i - 1].elev]]
   /\ pc' = "done"
   /\ UNCHANGED << script, entry, files, hemi, grid, corrections, top_n, top, opt,
                   cache, col_has_mtn, ellipsoid, s, best, slots, out, log,
                   error, probe, cols >>

SpecPar == InitPar /\ [][PrecomputeTrack \/ RunSample \/ Collect]_vars

\* ---------------------------------------------------------------- main

\* Headers no grid can have: one row, one column, no rows, no columns.
HeaderOneRow == Header(66000, 67000, -100000, -80000, 1, 3)

HeaderOneCol == Header(66000, 67000, -100000, -80000, 2, 1)

HeaderNoRows == Header(66000, 67000, -100000, -80000, 0, 3)

HeaderNoCols == Header(66000, 67000, -100000, -80000, 2, 0)

HeaderSouthOneCol == Header(-67000, -66000, 80000, 100000, 2, 1)

\* The files the north and the south grid file can be.
NorthFiles ==
   { File(HeaderGreenland, << 0, 0, 0, 0 >>),
     File(HeaderGreenland, << 5000, 0, -500, 3000 >>),
     File(HeaderNear, << 0, 5000, 0, 0, 0, 0 >>),
     File(HeaderRing, << 0, 0, 20000, 0, 0, 5000, 0, 0 >>),
     File(HeaderNear, << 0, 5000, 0, 0, 0 >>),
     File(HeaderOneRow, << 0, 5000, 0 >>),
     File(HeaderOneCol, << 0, 5000 >>),
     File(HeaderNoRows, << >>),
     File(HeaderNoCols, << >>) }

SouthFiles ==
   { File(HeaderSouth, << 0, 0, 0, 0, 0, 0 >>),
     File(HeaderSouth, << 0, 5000, 0, 0, 0, 20000 >>),
     File(HeaderSouthOneCol, << 0, 5000 >>) }

Init ==
   /\ script \in {"analyze", "tracks"} /\ entry = "main" /\ pc = "north_check"
   /\ files \in [north : NorthFiles \cup {NoFile}, south : SouthFiles \cup {NoFile}]
   /\ hemi = "north" /\ grid = NoGrid /\ corrections = << >>
   /\ top_n = TOP_N /\ probe = NoProbe
   /\ Unscanned /\ Unswept /\ Unwritten

\* The hemisphere whose file main tests next.
Checking == IF pc = "north_check" THEN "north" ELSE "south"

\* os.path.exists is false: the notice, and on to what follows.
SkipHemisphere ==
   /\ pc \in {"north_check", "south_check"}
   /\ files[Checking] = NoFile
   /\ log' = Append(log, << "Skipping", Checking >>)
   /\ pc' = Following(Checking)
   /\ UNCHANGED << script, entry, files, hemi, grid, corrections, top_n, top, opt,
                   cache, col_has_mtn, ellipsoid, s, best, track, slots, out,
                   error, probe, cols >>

\* os.path.exists is true: analyze_hemisphere is called with the corrections
\* of the hemisphere, or the block of precompute_tracks.main is entered.
EnterHemisphere ==
   /\ pc \in {"north_check", "south_check"}
   /\ files[Checking] # NoFile
   /\ hemi' = Checking
   /\ corrections' = IF Checking = "north" THEN PEAK_CORRECTIONS_NORTH ELSE << >>
   /\ pc' = IF script = "analyze" THEN "optimum" ELSE "read"
   /\ UNCHANGED << script, entry, files, grid, top_n, top, opt, cache, col_has_mtn,
                   ellipsoid, s, best, track, slots, out, log, error, probe, cols >>

\* analyze_hemisphere: opt_lat, opt_h = compute_ellipsoid_optimum(south).
ComputeOptimum ==
   /\ pc = "optimum"
   /\ opt' = EllipsoidOptimum(South)
   /\ pc' = "read"
   /\ UNCHANGED << script, entry, files, hemi, grid, corrections, top_n, top,
                   cache, col_has_mtn, ellipsoid, s, best, track, slots, out, log,
                   error, probe, cols >>

\* AfterRead with the corrections left out.
AfterReadNoCorrections == IF script = "analyze" THEN "scan" ELSE "track_init"

\* Where the run goes with the grid it has read.
AfterRead ==
   IF corrections # << >> THEN "correct"
   ELSE IF script = "analyze" THEN "scan" ELSE "track_init"

\* grid = read_elevation_grid(path); an exception leaves main.
ReadGrid ==
   /\ pc = "read"
   /\ LET r == IF script = "analyze" THEN read_elevation_grid(files[hemi])
               ELSE read_elevation_grid_tracks(files[hemi])
      IN  IF r.error # ""
          THEN error' = r.error /\ pc' = "crashed" /\ UNCHANGED grid
          ELSE grid' = r.grid /\ pc' = AfterRead /\ UNCHANGED error
   /\ UNCHANGED << script, entry, files, hemi, corrections, top_n, top, opt,
                   cache, col_has_mtn, ellipsoid, s, best, track, slots, out, log,
                   probe, cols >>

\* analyze_hemisphere after the scan: h, lat, lon, elev = top[0] and the
\* printed report.
Report ==
   /\ pc = "report"
   /\ IF top = << >>
      THEN error' = "IndexError" /\ pc' = "crashed" /\ UNCHANGED log
      ELSE /\ log' = Append(log, << "report", hemi >>)
           /\ pc' = NextHemisphere
           /\ UNCHANGED error
   /\ UNCHANGED << script, entry, files, hemi, grid, corrections, top_n, top, opt,
                   cache, col_has_mtn, ellipsoid, s, best, track, slots, out, probe,
                   cols >>

\* The end of main: precompute_tracks prints "Done.".
MainEnd ==
   /\ pc = "end"
   /\ log' = IF script = "tracks" THEN Append(log, << "Done.", "" >>) ELSE log
   /\ pc' = "exit"
   /\ UNCHANGED << script, entry, files, hemi, grid, corrections, top_n, top, opt,
                   cache, col_has_mtn, ellipsoid, s, best, track, slots, out,
                   error, probe, cols >>

Next ==
   \/ SkipHemisphere
   \/ EnterHemisphere
   \/ ComputeOptimum
   \/ ReadGrid
   \/ ApplyCorrections
   \/ ScanGrid
   \/ Report
   \/ PrecomputeTrack
   \/ SweepSample
   \/ WriteTrack
   \/ MainEnd

Spec == Init /\ [][Next]_vars

\* ---------------------------------------------------------------- apply_corrections: properties

\* Row and column a correction rounds to, and whether they are in the grid.
TargetRow(c) == RoundHalfEven(c.lat - grid.latMin, grid.latStep)

TargetCol(c) == RoundHalfEven(c.lon - grid.lonMin, grid.lonStep)

InBounds(c) ==
   /\ 0 <= TargetRow(c) /\ TargetRow(c) < grid.nRows
   /\ 0 <= TargetCol(c) /\ TargetCol(c) < grid.nCols

\* The true elevations of the in-bounds corrections aimed at cell idx (0-based).
AimedAt(idx) ==
   {corrections[k].elev : k \in {j \in 1..Len(corrections) :
        /\ InBounds(corrections[j])
        /\ TargetRow(corrections[j]) * grid.nCols + TargetCol(corrections[j]) = idx}}

SetMax(S) == CHOOSE m \in S : \A e \in S : m >= e

CorrDone == entry = "apply_corrections" /\ pc = "done"

\* C3: after apply_corrections every cell holds the maximum of its old
\* elevation and the true elevations of the in-bounds corrections aimed at it;
\* so an out-of-bounds correction changes nothing and raises no error, an
\* untargeted cell keeps its elevation, no elevation decreases, and the
\* number of cells and the header stay as read.
C3_CorrectionsRaiseOnly ==
   CorrDone =>
      LET old == files.north.payload
      IN  /\ error = ""
          /\ Len(grid.elevations) = grid.nRows * grid.nCols
          /\ Len(grid.elevations) = Len(old)
          /\ [grid EXCEPT !.elevations = old] = GridOf(files.north)
          /\ \A i \in 1..Len(old) :
                /\ grid.elevations[i] = SetMax({old[i]} \cup AimedAt(i - 1))
                /\ grid.elevations[i] >= old[i]

\* C3 witness: a list with an out-of-bounds correction and an in-bounds one
\* that raised its cell, on a grid where another cell lies above sea level.
C3_Witness ==
   /\ CorrDone
   /\ \E k \in 1..Len(corrections) : ~InBounds(corrections[k])
   /\ \E i \in 1..Len(grid.elevations) :
         /\ grid.elevations[i] > files.north.payload[i]
         /\ grid.elevations[i] \in AimedAt(i - 1)
   /\ \E i \in 1..Len(grid.elevations) :
         AimedAt(i - 1) = {} /\ grid.elevations[i] > 0

\* ---------------------------------------------------------------- compute_track: properties

TrackDone == entry = "compute_track" /\ pc = "done"

\* The cells above sea level (0-based indices).
Peaks == {i \in 0..(CellCount - 1) : grid.elevations[i + 1] > 0}

SinglePeak == Cardinality(Peaks) = 1

ThePeak == CHOOSE i \in Peaks : TRUE

\* Longitude of the pole's projected meridian at sample k.
EnpLonAt(k) == EnpLonDeg(PoleVector(k, South))

\* Angle of a full turn that sample k stands for, millidegrees.
TurnOf(k) == (k * 360 * MilliDeg) \div NUM_SAMPLES

\* Angular distance of two longitudes, millidegrees in 0..180000.
AngDist(a, b) ==
   LET d == (a - b) % (360 * MilliDeg)
   IN  Min2(d, 360 * MilliDeg - d)

\* C4 as stated: with one cell above sea level, the track carries that
\* cell's elevation on exactly the samples whose pole meridian lies within
\* 15 degrees of the cell's longitude, and 0 on the others.
C4_WithinFifteenDegrees ==
   (TrackDone /\ SinglePeak) =>
      \A k \in 0..NUM_SAMPLES :
         track.elevs[k + 1] =
            IF AngDist(EnpLonAt(k), cache.lons[ThePeak + 1]) <= WINDOW_DEG * MilliDeg
            THEN grid.elevations[ThePeak + 1] ELSE 0

\* The columns searched at sample k: those at most w columns from the
\* centre column, modulo nCols, where one column counts as 360 / nCols
\* degrees and w is the least number of columns that covers 15 degrees.
SearchedCols(k) ==
   LET w == CHOOSE n \in 0..(WINDOW_DEG * grid.nCols) :
               /\ n * 360 >= WINDOW_DEG * grid.nCols
               /\ (n - 1) * 360 < WINDOW_DEG * grid.nCols
       c == RoundHalfEven((EnpLonAt(k) - grid.lonMin) * grid.nCols, 360 * MilliDeg)
   IN  {(c + dc) % grid.nCols : dc \in (-w)..w}

\* The peak is what sample k emits: its column is searched and its height
\* along the pole at that sample is above the ellipsoid baseline.
PeakWins(k) ==
   /\ (ThePeak % grid.nCols) \in SearchedCols(k)
   /\ InstantHeight(cache, ThePeak, PoleVector(k, South)) > ellipsoid.h

\* C4 amended: with one cell above sea level, the track carries that cell's
\* elevation, latitude and longitude on exactly the samples at which the
\* cell's column is among the searched columns and the cell's instantaneous
\* height is strictly above the ellipsoid baseline height; every other
\* sample carries elevation 0 at the baseline latitude and the pole meridian.
C4_InWindowAndAboveBaseline ==
   (TrackDone /\ SinglePeak) =>
      \A k \in 0..NUM_SAMPLES :
         IF PeakWins(k)
         THEN /\ track.elevs[k + 1] = grid.elevations[ThePeak + 1]
              /\ track.lats[k + 1] = cache.lats[ThePeak + 1]
              /\ track.lons[k + 1].mdeg = cache.lons[ThePeak + 1]
         ELSE /\ track.elevs[k + 1] = 0
              /\ track.lats[k + 1] = ellipsoid.lat
              /\ track.lons[k + 1].mdeg = EnpLonAt(k)

\* C4 witness: a sweep over a grid with one peak that carries the peak on one
\* sample, the baseline on a sample that searched the peak's column, and the
\* baseline on a sample that did not search it.
C4_Witness ==
   /\ TrackDone /\ SinglePeak
   /\ \E k \in 0..NUM_SAMPLES : track.elevs[k + 1] = grid.elevations[ThePeak + 1]
   /\ \E k \in 0..NUM_SAMPLES :
         /\ track.elevs[k + 1] = 0
         /\ (ThePeak % grid.nCols) \in SearchedCols(k)
   /\ \E k \in 0..NUM_SAMPLES :
         /\ track.elevs[k + 1] = 0
         /\ (ThePeak % grid.nCols) \notin SearchedCols(k)

\* Largest error of the fixed-point atan2, millidegrees.
LonTol == 10

\* The pole meridian of a turn by g millidegrees: -90 - g degrees in the
\* north, 90 - g degrees in the south.
MeridianOf(g) == IF South THEN 90 * MilliDeg - g ELSE -90 * MilliDeg - g

\* The count, the order and the angles of a finished track: NUM_SAMPLES + 1
\* samples; a baseline sample k lies on the pole meridian of the angle
\* k / NUM_SAMPLES of a full turn; the file holds the count and the samples
\* in the same order.
TrackInOrder ==
   /\ Len(track.lats) = NUM_SAMPLES + 1
   /\ Len(track.lons) = NUM_SAMPLES + 1
   /\ Len(track.elevs) = NUM_SAMPLES + 1
   /\ \A k \in 0..NUM_SAMPLES :
         track.elevs[k + 1] = 0 =>
            AngDist(track.lons[k + 1].mdeg, MeridianOf(TurnOf(k))) <= LonTol
   /\ out[hemi].n = NUM_SAMPLES + 1
   /\ Len(out[hemi].records) = out[hemi].n
   /\ \A i \in 1..(NUM_SAMPLES + 1) :
         /\ out[hemi].records[i][1] = Float32(track.lats[i])
         /\ out[hemi].records[i][2] = Float32(track.lons[i].mdeg)
         /\ out[hemi].records[i][3] = track.elevs[i]

SequentialTrack ==
   SweepFrom(grid, cache, col_has_mtn, ellipsoid, South, NoBest, 0, NoTrack)

\* C10: the result of a sample depends on the grid, the hemisphere and the
\* sample index alone: each slot filled in any order holds what the loop
\* emits for that index, and the slots read by index give the track of the
\* sequential loop.
C10_OrderIndependent ==
   (entry = "any_order" /\ pc \in {"pool", "collect", "done"}) =>
      LET seq == SequentialTrack
      IN  /\ \A k \in DOMAIN slots :
                /\ slots[k].lat = seq.lats[k + 1]
                /\ slots[k].lon = seq.lons[k + 1]
                /\ slots[k].elev = seq.elevs[k + 1]
          /\ pc = "done" => track = seq

\* C10 witness: a collected track with a peak sample and a baseline sample
\* whose last run of the body was not the last index.
C10_Witness ==
   /\ entry = "any_order" /\ pc = "done"
   /\ best # slots[NUM_SAMPLES]
   /\ \E k \in 0..NUM_SAMPLES : track.elevs[k + 1] > 0
   /\ \E k \in 0..NUM_SAMPLES : track.elevs[k + 1] = 0

\* The visits of the search at sample k: pairs of a position j in the
\* window, 1 for center_col - window_cols, and a row, in the order of the two
\* loops; Visited(k) are those that find a cell above sea level.
VisitCell(k, v) ==
   (v[2] * grid.nCols)
   + ((CenterCol(grid, EnpLonAt(k)) + v[1] - 1 - WindowCols(grid)) % grid.nCols)

Visited(k) ==
   LET center_col == CenterCol(grid, EnpLonAt(k))
       window_cols == WindowCols(grid)
   IN  {v \in (1..(2 * window_cols + 1)) \X (0..(grid.nRows - 1)) :
          grid.elevations[(v[2] * grid.nCols)
             + ((center_col + v[1] - 1 - window_cols) % grid.nCols) + 1] > 0}

VisitHeight(k, v) == InstantHeight(cache, VisitCell(k, v), PoleVector(k, South))

VisitBefore(u, v) == u[1] < v[1] \/ (u[1] = v[1] /\ u[2] < v[2])

\* Sample k of the track is the cell of visit v.
EmitsVisit(k, v) ==
   /\ track.lats[k + 1] = cache.lats[VisitCell(k, v) + 1]
   /\ track.lons[k + 1] = Longitude(cache.lons[VisitCell(k, v) + 1], 0)
   /\ track.elevs[k + 1] = grid.elevations[VisitCell(k, v) + 1]

\* C11: at every sample at which some cell above sea level in the window is
\* strictly higher along the pole than the ellipsoid baseline, the sample is a
\* window cell at least as high as every other such cell, and of the cells
\* of that height the one the column loop and then the row loop meet first.
C11_MaximumOfSearch ==
   TrackDone =>
      \A k \in 0..NUM_SAMPLES :
         LET pole    == PoleVector(k, South)
             visited == Visited(k)
             cell    == [v \in visited |-> VisitCell(k, v)]
             height  == [v \in visited |-> InstantHeight(cache, cell[v], pole)]
         IN  (\E v \in visited : height[v] > ellipsoid.h) =>
                \E v \in visited :
                   /\ track.lats[k + 1] = cache.lats[cell[v] + 1]
                   /\ track.lons[k + 1] = Longitude(cache.lons[cell[v] + 1], 0)
                   /\ track.elevs[k + 1] = grid.elevations[cell[v] + 1]
                   /\ \A u \in visited :
                         /\ height[v] >= height[u]
                         /\ height[u] = height[v] => ~VisitBefore(u, v)

\* C11 witness: a sample at which two different cells above the baseline have
\* the same height and the one met first is in the track.
C11_Witness ==
   /\ TrackDone
   /\ \E k \in 0..NUM_SAMPLES : \E u, v \in Visited(k) :
         /\ VisitCell(k, u) # VisitCell(k, v)
         /\ VisitHeight(k, u) = VisitHeight(k, v)
         /\ VisitHeight(k, v) > ellipsoid.h
         /\ VisitBefore(v, u)
         /\ EmitsVisit(k, v)
         /\ \A t \in Visited(k) : VisitHeight(k, v) >= VisitHeight(k, t)

\* C12: a sample whose window holds no cell above sea level is the ellipsoid
\* baseline unchanged: the latitude of compute_optimal_ellipsoid_lat, the
\* sample's enp_lon_deg and elevation 0; and the elevation of every sample is
\* 0 or the positive elevation of a cell of the grid, never negative.
C12_BaselineFallback ==
   TrackDone =>
      LET baseline == EllipsoidLat(South).lat
          positive == {grid.elevations[i] : i \in 1..CellCount} \ ((-32768)..0)
      IN  \A k \in 0..NUM_SAMPLES :
             /\ Visited(k) = {} =>
                   /\ track.lats[k + 1] = baseline
                   /\ track.lons[k + 1] = Longitude(EnpLonAt(k), GmstLow(k))
                   /\ track.elevs[k + 1] = 0
             /\ track.elevs[k + 1] = 0 \/ track.elevs[k + 1] \in positive

\* C12 witness: a track over a grid with a cell below sea level, with a
\* sample whose window holds no cell above sea level and a sample on a peak.
C12_Witness ==
   /\ TrackDone
   /\ \E i \in 1..CellCount : grid.elevations[i] < 0
   /\ \E k \in 0..NUM_SAMPLES : Visited(k) = {} /\ track.elevs[k + 1] = 0
   /\ \E k \in 0..NUM_SAMPLES : track.elevs[k + 1] > 0

\* A sample of the sweep has run: s - 1 is its index and cols its columns.
Sampled == entry = "compute_track" /\ pc \in {"sweep", "write", "done"} /\ s >= 1

SearchedNow == {cols[j] : j \in 1..Len(cols)}

\* The window of half-width WINDOW_DEG around enp_lon_deg of sample k when one
\* column stands for num / den millidegrees: W = ceil(15 / step) columns
\* either side of round((enpLon - lonMin) / step) mod nCols.
WindowOfStep(k, num, den) ==
   LET W == CHOOSE n \in 0..(WINDOW_DEG * MilliDeg * den) :
               /\ n * num >= WINDOW_DEG * MilliDeg * den
               /\ (n - 1) * num < WINDOW_DEG * MilliDeg * den
       c == RoundHalfEven((EnpLonAt(k) - grid.lonMin) * den, num) % grid.nCols
   IN  {(c + dc) % grid.nCols : dc \in (-W)..W}

\* C13 as stated: the columns searched at a sample are the window computed
\* with the grid's lonStep = (lonMax - lonMin) / (nCols - 1), all in 0..nCols-1.
C13_WindowOfGridStep ==
   Sampled =>
      /\ SearchedNow = WindowOfStep(s - 1, grid.lonStep, 1)
      /\ SearchedNow \subseteq 0..(grid.nCols - 1)

\* What compute_track does instead: the columns searched at a sample are
\* the window computed with lon_step = 360 / nCols, the step of a grid that
\* spans the full circle, whatever the grid's own lonStep is.
WindowOfFullTurn ==
   Sampled =>
      /\ SearchedNow = WindowOfStep(s - 1, 360 * MilliDeg, grid.nCols)
      /\ SearchedNow \subseteq 0..(grid.nCols - 1)

\* A sample of a grid whose own step is not 360 / nCols that searched some
\* columns and left a column out, the window wrapping around.
NarrowWindow ==
   /\ Sampled
   /\ grid.lonStep * grid.nCols # 360 * MilliDeg
   /\ SearchedNow # {} /\ SearchedNow # 0..(grid.nCols - 1)
   /\ \E j \in 1..(Len(cols) - 1) : cols[j + 1] < cols[j]

\* compute_track has built col_has_mtn for the current grid.
FlagsBuilt == entry = "compute_track" /\ pc \in {"sweep", "write", "done"}

\* Flags that skip no column.
NoSkip == [c \in 1..grid.nCols |-> TRUE]

\* The columns of the last sample's window whose flag is false.
SkippedNow == {c \in SearchedNow : ~col_has_mtn[c + 1]}

\* C16: a column's flag is true exactly when some row of the column has an
\* elevation > 0, and every sample of the sweep is the one the loop body
\* gives with the column skip removed, every row of every window column
\* being looked at and only the cells <= 0 passed over.
C16_SkipIsOptimisation ==
   /\ FlagsBuilt =>
         \A c \in 0..(grid.nCols - 1) :
            col_has_mtn[c + 1] <=>
               \E row \in 0..(grid.nRows - 1) :
                  grid.elevations[row * grid.nCols + c + 1] > 0
   /\ Sampled =>
         LET b == SampleBody(grid, cache, NoSkip, ellipsoid, South, NoBest, s - 1)
         IN  /\ track.lats[s] = b.lat
             /\ track.lons[s] = b.lon
             /\ track.elevs[s] = b.elev

\* C16 witness: a sample whose window held a skipped column with a cell
\* below sea level and a flagged column, and that emitted a grid cell.
C16_Witness ==
   /\ Sampled
   /\ \E c \in SkippedNow :
         \E row \in 0..(grid.nRows - 1) : grid.elevations[row * grid.nCols + c + 1] < 0
   /\ SearchedNow \ SkippedNow # {}
   /\ track.elevs[s] > 0

\* ---------------------------------------------------------------- main: properties

Hemispheres == {"north", "south"}

\* A file that holds a grid of at least 2 x 2 cells with all its elevations.
Sound(f) == f.nRows >= 2 /\ f.nCols >= 2 /\ Len(f.payload) = f.nRows * f.nCols

AbsentOrSound == \A h \in Hemispheres : files[h] = NoFile \/ Sound(files[h])

\* The grid main works on in hemisphere h: the file as read, with the peak
\* corrections in the north.
GridFor(h) ==
   IF h = "south" THEN GridOf(files[h])
   ELSE IF script = "analyze" THEN apply_corrections(GridOf(files[h]), PEAK_CORRECTIONS_NORTH)
   ELSE apply_corrections_tracks(GridOf(files[h]), PEAK_CORRECTIONS_NORTH)

\* The track file of hemisphere h.
TrackFileFor(h) ==
   LET g == GridFor(h)
       t == SweepFrom(g, precompute_ecef(g), ColHasMtn(g), EllipsoidLat(h = "south"),
                      h = "south", NoBest, 0, NoTrack)
   IN  write_track(t.lats, t.lons, t.elevs)

\* What main prints about hemisphere h.
NoticeFor(h) ==
   IF files[h] = NoFile THEN << << "Skipping", h >> >>
   ELSE IF script = "analyze" THEN << << "report", h >> >>
   ELSE << >>

\* The hemisphere analysed last, if any.
LastPresent == IF files["south"] # NoFile THEN "south" ELSE "north"

\* C8: with each grid file absent or sound, main never ends in an exception,
\* and when it ends it has skipped every absent hemisphere with a notice and
\* written nothing for it, and has run every present hemisphere in full: the
\* report of the scan in analyze_global_max, the track file of
\* NUM_SAMPLES + 1 samples in precompute_tracks, north before south.
C8_MissingFileSkipped ==
   (entry = "main" /\ AbsentOrSound) =>
      /\ error = "" /\ pc # "crashed"
      /\ pc = "exit" =>
            /\ log = NoticeFor("north") \o NoticeFor("south")
                     \o (IF script = "tracks" THEN << << "Done.", "" >> >> ELSE << >>)
            /\ \A h \in Hemispheres :
                  IF files[h] = NoFile \/ script = "analyze"
                  THEN out[h] = NoFile
                  ELSE out[h].n = NUM_SAMPLES + 1 /\ out[h] = TrackFileFor(h)
            /\ (script = "analyze" /\ files[LastPresent] # NoFile) =>
                  top = scan_grid(GridFor(LastPresent), LastPresent = "south", TOP_N)

\* C8 witness: precompute_tracks has ended with the north file absent and the
\* south track written.
C8_Witness ==
   /\ entry = "main" /\ pc = "exit" /\ script = "tracks"
   /\ files["north"] = NoFile /\ files["south"] # NoFile
   /\ out["south"] # NoFile /\ out["north"] = NoFile
   /\ log = << << "Skipping", "north" >>, << "Done.", "" >> >>

\* A file whose header has fewer than two rows or fewer than two columns.
Degenerate(f) == f # NoFile /\ (f.nRows < 2 \/ f.nCols < 2)

\* C9: a degenerate grid file is refused as invalid input: the reader does
\* not divide by nRows - 1 = 0 or nCols - 1 = 0, and main runs no
\* correction, scan, report or sweep on such a grid.
C9_DegenerateRejected ==
   entry = "main" =>
      /\ error # "ZeroDivisionError"
      /\ pc \in {"correct", "scan", "report", "track_init", "sweep", "write"}
            => ~Degenerate(files[hemi])

\* The positions of a hemisphere run after the grid is loaded and corrected.
ReadOnlyPhase == pc \in {"scan", "report", "track_init", "sweep", "write"}

\* The positions in which the cache and the column flags exist.
Sweeping == pc \in {"sweep", "write"}

\* C14: in each hemisphere run of main the grid is written by the load and
\* by apply_corrections only, and both are complete when the scan, the cache,
\* the column flags or the sweep are computed: from then on the grid is the
\* corrected file and no step changes it; the ECEF cache and the column
\* flags are those of that grid, built before the first sample, and no step
\* of the sweep changes them.
C14_OneWriterPhase ==
   /\ [](entry = "main" /\ ReadOnlyPhase => grid = GridFor(hemi))
   /\ [](entry = "main" /\ Sweeping =>
            cache = precompute_ecef(grid) /\ col_has_mtn = ColHasMtn(grid))
   /\ [][entry = "main" /\ ReadOnlyPhase => grid' = grid]_vars
   /\ [][entry = "main" /\ Sweeping => cache' = cache /\ col_has_mtn' = col_has_mtn]_vars

\* C14 witness: a sweep has emitted samples from a grid that the corrections
\* changed after the load.
C14_Witness ==
   /\ entry = "main" /\ pc = "sweep" /\ s >= 2
   /\ grid # GridOf(files[hemi])
   /\ \E c \in 1..grid.nCols : col_has_mtn[c]

\* ---------------------------------------------------------------- scan_grid: properties

\* The candidates of all cells of the current grid.
AllCandidates == {Candidate(grid, South, i) : i \in 0..(CellCount - 1)}

Returned == {top[k] : k \in 1..Len(top)}

ScanDone == entry = "scan_grid" /\ pc = "done"

\* C1: scan_grid returns exactly min(top_n, nRows*nCols) candidates, each the
\* candidate of a cell; every returned candidate is at least as high as every
\* cell that was not returned, and the first one at least as high as every cell.
C1_TopCandidates ==
   ScanDone =>
      /\ Len(top) = Min2(top_n, CellCount)
      /\ Returned \subseteq AllCandidates
      /\ Cardinality(Returned) = Len(top)
      /\ \A c \in Returned : \A d \in AllCandidates \ Returned : c[1] >= d[1]
      /\ Len(top) >= 1 => \A d \in AllCandidates : top[1][1] >= d[1]

\* C1 witness: a scan that returned fewer candidates than there are cells and
\* left out a strictly lower cell.
C1_Witness ==
   /\ ScanDone
   /\ Len(top) >= 2 /\ Len(top) < CellCount
   /\ \E d \in AllCandidates \ Returned : top[1][1] > d[1]

\* C2 as stated: consecutive candidates are strictly descending by height.
C2_StrictlyDescending ==
   ScanDone => \A k \in 1..(Len(top) - 1) : top[k][1] > top[k + 1][1]

\* C2 amended: consecutive candidates are descending by height, not strictly:
\* the earlier height is greater than or equal to the later one, and two
\* candidates of equal height are in descending order of (lat, lon, elev).
C2_Descending ==
   ScanDone =>
      \A k \in 1..(Len(top) - 1) :
         /\ top[k][1] >= top[k + 1][1]
         /\ TupleGreater(top[k], top[k + 1])

\* C2 witness: two consecutive candidates of one latitude row and one clamped
\* elevation with equal heights.
C2_Witness ==
   /\ ScanDone
   /\ \E k \in 1..(Len(top) - 1) :
         /\ top[k][1] = top[k + 1][1]
         /\ top[k][2] = top[k + 1][2]
         /\ Max2(top[k][4], 0) = Max2(top[k + 1][4], 0)

\* The grid of the end-to-end example: elevations [0, 0, 5000, 0].
UnitGrid == GridOf(File(HeaderUnit, << 0, 0, 5000, 0 >>))

UnitScanDone == ScanDone /\ grid = UnitGrid /\ hemi = "north" /\ top_n = 1

\* C6 as stated: the winner is the cell at lat 61, lon 0 with 5000 m, and its
\* height is strictly greater than the northern ellipsoid baseline height.
C6_WinnerAboveBaseline ==
   UnitScanDone =>
      /\ Len(top) = 1
      /\ top[1][2] = 61000 /\ top[1][3] = 0 /\ top[1][4] = 5000
      /\ top[1][1] > EllipsoidOptimum(FALSE).h

\* C6 amended: the winner is that cell, its height is strictly greater than
\* the height of every other cell of the grid, and it is lower than the
\* northern ellipsoid baseline height.
C6_WinnerOfGrid ==
   UnitScanDone =>
      /\ Len(top) = 1
      /\ top[1][2] = 61000 /\ top[1][3] = 0 /\ top[1][4] = 5000
      /\ \A d \in AllCandidates \ Returned : top[1][1] > d[1]
      /\ top[1][1] < EllipsoidOptimum(FALSE).h

\* C6 witness: the scan of the example grid has returned its winner.
C6_Witness == UnitScanDone /\ Len(top) = 1 /\ top[1][4] = 5000

\* scan_grid has returned top for the current grid and hemisphere.
ScanReturned == pc = "report" \/ ScanDone

\* The ECEF cache of the current grid exists.
CacheBuilt == Sweeping \/ (entry # "main" /\ cache # NoCache)

\* The height of the ellipsoid surface (elevation 0) at a latitude and
\* longitude, from its ECEF position.
SeaLevelHeight(lat_deg, lon_deg) ==
   LET p   == geodetic_to_ecef(lat_deg, lon_deg, 0)
       rxy == Hypot(p.x, p.y)
   IN  IF South THEN Mul(rxy, SIN_E) - Mul(p.z, COS_E)
       ELSE Mul(rxy, SIN_E) + Mul(p.z, COS_E)

\* Cell i of the grid is returned with its signed elevation, and with the
\* height of elevation 0 if it is not above sea level.
ReturnedSigned(i, cand) ==
   LET lat_deg == RowLat(grid, i \div grid.nCols)
       lon_deg == ColLon(grid, i % grid.nCols)
       e == grid.elevations[i + 1]
   IN  /\ cand[2] = lat_deg /\ cand[3] = lon_deg /\ cand[4] = e
       /\ e <= 0 => cand[1] = SeaLevelHeight(lat_deg, lon_deg)

\* Cell i of the grid is cached at its elevation, or at 0 if that is higher.
CachedClamped(i) ==
   LET p == geodetic_to_ecef(RowLat(grid, i \div grid.nCols),
                             ColLon(grid, i % grid.nCols),
                             IF grid.elevations[i + 1] <= 0 THEN 0
                             ELSE grid.elevations[i + 1])
   IN  /\ cache.ecef_x[i + 1] = p.x
       /\ cache.ecef_y[i + 1] = p.y
       /\ cache.ecef_z[i + 1] = p.z

\* C15: every candidate scan_grid returns is a cell of the grid with its
\* signed elevation, its height being that of elevation 0 at the same place
\* when the elevation is not positive, and when the slice leaves no cell out
\* every cell is returned so; the ECEF cache of the sweep holds every cell
\* at max(e, 0).
C15_ClampedBelowSeaLevel ==
   /\ ScanReturned =>
         /\ \A k \in 1..Len(top) :
               \E i \in 0..(CellCount - 1) : ReturnedSigned(i, top[k])
         /\ Len(top) = CellCount =>
               \A i \in 0..(CellCount - 1) :
                  \E k \in 1..Len(top) : ReturnedSigned(i, top[k])
   /\ CacheBuilt => \A i \in 0..(CellCount - 1) : CachedClamped(i)

\* C15 witness: the scan of main has returned a cell below sea level beside a
\* cell above it.
C15_Witness ==
   /\ entry = "main" /\ pc = "report"
   /\ \E k \in 1..Len(top) : top[k][4] < 0
   /\ \E k \in 1..Len(top) : top[k][4] > 0
   /\ \E i \in 0..(CellCount - 1) : grid.elevations[i + 1] < 0

\* ---------------------------------------------------------------- ecliptic_hmax: properties

\* Largest difference between the heights of one (lat, elev) at two
\* longitudes, metres: the rounding of the fixed-point sin and cos.
HmaxTol == 200

\* C5: the height of a point does not depend on its longitude: at one latitude,
\* elevation and hemisphere, the heights at two longitudes agree within HmaxTol.
C5_LongitudeIndependent ==
   (entry = "ecliptic_hmax" /\ pc = "done") => Abs(probe.h1 - probe.h2) <= HmaxTol

\* C5 witness: a point above sea level evaluated at two different longitudes.
C5_Witness ==
   /\ entry = "ecliptic_hmax" /\ pc = "done"
   /\ probe.lon1 # probe.lon2 /\ probe.elev > 0 /\ probe.h1 > 0 /\ probe.h2 > 0

====
